---- MODULE Spec2Model ----
(***************************************************************************)
(* Memory subsystem of elderwise: the Redis session cache                  *)
(* (src/memory/session.py), the MongoDB fragment store                     *)
(* (src/memory/storage.py), the Pinecone semantic index                    *)
(* (src/memory/semantic.py), the controller that merges them               *)
(* (src/memory/controller.py), the retention scheduler                     *)
(* (src/utils/scheduler.py), the AI client with its fallback chain         *)
(* (src/ai/client.py) and the chat, memory and user routes                 *)
(* (src/api/routes).                                                       *)
(*                                                                         *)
(* Time is counted in days.  A text is the sequence of its whitespace-     *)
(* separated words.  A backend call that fails raises and has no effect.   *)
(***************************************************************************)
EXTENDS Integers, Sequences, FiniteSets, TLC

VARIABLES
    session,          \* Redis: user -> list stored under session:{user}:history
    sessionExpiry,    \* Redis: user -> day the key expires, NoExpiry when no TTL is set
    user_profiles,    \* MongoDB collection user_profiles (a set of documents)
    memory_fragments, \* MongoDB collection memory_fragments (a set of documents)
    vectors,          \* Pinecone index (a set of entries)
    nextId,           \* source of fresh ObjectIds and uuid4 values
    clock,            \* datetime.utcnow(), in days
    ticks,            \* number of times the clock has been advanced
    writes,           \* number of state-changing handler calls made so far
    faults,           \* number of backend failures injected so far
    appended,         \* history: user -> every interaction rpush has stored, in order
    scheduler,        \* MemoryScheduler: errors logged and raised per job, the job run under way
    ai_client,        \* AIClient: _initialized, primary_provider, fallback_providers
    background_tasks, \* the tasks the chat route has added and the server has yet to run
    interaction_logs, \* MongoDB collection interaction_logs (a set of documents)
    served,           \* history: the request/response pairs the chat endpoints have served
    creating,         \* the create_user handlers waiting for their insert_one
    last              \* the last handler call: its arguments, outcome and backend trace

vars == <<session, sessionExpiry, user_profiles, memory_fragments, vectors,
          nextId, clock, ticks, writes, faults, appended, scheduler,
          ai_client, background_tasks, interaction_logs, served, creating, last>>

sessionVars == <<session, sessionExpiry>>
storeVars == <<user_profiles, memory_fragments, vectors, nextId>>
apiVars == <<ai_client, background_tasks, interaction_logs, served, creating>>

----------------------------------------------------------------------------
(* Bounds of the model *)

MaxAdds == 12
MaxTicks == 2
MaxLimit == 12
MaxFaults == 1
MaxStores == 2
MaxShared == 4
MaxWords == 3
MaxCreates == 3

(* Settings (src/config/settings.py) and SessionManager.__init__ *)

memory_active_days == 90
memory_archive_days == 365
memory_context_limit == 10
session_ttl == 86400
SecondsPerDay == 24 * 60 * 60

Users == {"u1", "u2"}
None == "None"
NoExpiry == 0 - 1

----------------------------------------------------------------------------
(* Sequence helpers *)

Range(s) == {s[i] : i \in DOMAIN s}

Min(a, b) == IF a < b THEN a ELSE b
Max(a, b) == IF a > b THEN a ELSE b

Take(s, n) == SubSeq(s, 1, Min(n, Len(s)))

LastN(s, n) == SubSeq(s, Len(s) - Min(n, Len(s)) + 1, Len(s))

IsSuffix(s, t) == Len(s) <= Len(t) /\ s = LastN(t, Len(s))

----------------------------------------------------------------------------
(* Redis list commands, with Redis' index normalisation: a negative index  *)
(* counts from the tail, out-of-range indexes are clamped.                 *)

RedisSlice(list, start, stop) ==
    LET n == Len(list)
        s == IF start < 0 THEN Max(n + start, 0) ELSE start
        e == IF stop < 0 THEN n + stop ELSE Min(stop, n - 1)
    IN  IF s > e \/ s >= n THEN <<>> ELSE SubSeq(list, s + 1, e + 1)

rpush(list, value) == Append(list, value)

ltrim(list, start, stop) == RedisSlice(list, start, stop)

lrange(list, start, stop) == RedisSlice(list, start, stop)

(* json.dumps / json.loads of an interaction dict *)
json_dumps(obj) == <<"json", obj>>
json_parses(raw) == Len(raw) = 2 /\ raw[1] = "json"
json_loads(raw) == raw[2]

----------------------------------------------------------------------------
(* SessionManager (src/memory/session.py) *)

AddFailPoints == {"none", "rpush", "ltrim", "expire"}

(* The backend commands add_interaction has completed when it fails at failAt *)
AddTrace(failAt) ==
    CASE failAt = "rpush" -> <<>>
      [] failAt = "ltrim" -> <<"rpush">>
      [] failAt = "expire" -> <<"rpush", "ltrim">>
      [] OTHER -> <<"rpush", "ltrim", "expire">>

(* A trim that keeps one record more than the limit *)
TrimOffByOne(list) == ltrim(list, -(memory_context_limit + 1), -1)

(* ltrim(key, -settings.memory_context_limit, -1) *)
TrimSession(list) == ltrim(list, -memory_context_limit, -1)

(* The list and expiry of one key after add_interaction, and whether it raised *)
add_interaction(list, expiry, now, user_message, ai_response, failAt) ==
    LET interaction == [timestamp |-> now, user |-> user_message, ai |-> ai_response]
        today == now[1]
        pushed == rpush(list, json_dumps(interaction))
        trimmed == TrimSession(pushed)
    IN  CASE failAt = "rpush" -> [list |-> list, expiry |-> expiry, raised |-> TRUE]
          [] failAt = "ltrim" -> [list |-> pushed, expiry |-> expiry, raised |-> TRUE]
          [] failAt = "expire" -> [list |-> trimmed, expiry |-> expiry, raised |-> TRUE]
          [] OTHER -> [list |-> trimmed,
                       expiry |-> today + (session_ttl \div SecondsPerDay),
                       raised |-> FALSE]

(* limit or settings.memory_context_limit: a missing limit (None) and the  *)
(* limit 0 are both falsy; the model writes either as 0.                   *)
EffectiveLimit(limit) == IF limit = 0 THEN memory_context_limit ELSE limit

(* A decoding that gives up on the whole list at an item that is not JSON *)
DecodeUntilBad(raw) ==
    IF \E i \in DOMAIN raw : ~json_parses(raw[i]) THEN <<>>
    ELSE [i \in DOMAIN raw |-> json_loads(raw[i])]

(* The loop of get_recent_interactions: json.loads of each item, an item   *)
(* that raises JSONDecodeError is skipped                                  *)
RECURSIVE DecodeAll(_)
DecodeAll(raw) ==
    IF raw = <<>> THEN <<>>
    ELSE LET rest == DecodeAll(Tail(raw))
         IN  IF json_parses(Head(raw)) THEN <<json_loads(Head(raw))>> \o rest ELSE rest

(* A read of the oldest records, lrange(key, 0, limit - 1) *)
RecentFromHead(list, limit, fail) ==
    IF fail THEN <<>>
    ELSE DecodeAll(lrange(list, 0, EffectiveLimit(limit) - 1))

get_recent_interactions(list, limit, fail) ==
    IF fail THEN <<>>
    ELSE DecodeAll(lrange(list, -EffectiveLimit(limit), -1))

----------------------------------------------------------------------------
(* Texts: the sequence of the words of a message *)

Hi == <<"Hi">>
Hello == <<"Hello!">>
ForgotMedication ==
    <<"I", "forgot", "to", "take", "my", "blood", "pressure", "medication">>
PleaseRemember == <<"Please", "remember", "to", "take", "it">>

(* str.lower() of a word of the vocabulary *)
Lower(w) ==
    CASE w = "Hi" -> "hi"
      [] w = "Hello!" -> "hello!"
      [] w = "I" -> "i"
      [] w = "Please" -> "please"
      [] OTHER -> w

(* The keywords that are proper substrings of a word of the vocabulary *)
Embedded == {<<"feeling", "feel">>, <<"painting", "pain">>, <<"unhappy", "happy">>}

WordHas(w, kw) == w = kw \/ <<w, kw>> \in Embedded

(* keyword in text.lower(): a substring test; the one keyword that holds a *)
(* blank, "last week", spans two neighbouring words                        *)
Contains(text, kw) ==
    IF kw = "last week"
    THEN \E i \in 1..(Len(text) - 1) :
            Lower(text[i]) = "last" /\ Lower(text[i + 1]) = "week"
    ELSE \E i \in DOMAIN text : WordHas(Lower(text[i]), kw)

ContainsAny(text, kws) == \E kw \in kws : Contains(text, kw)

(* user_message + " " + ai_response *)
Combined(user_message, ai_response) == user_message \o ai_response

----------------------------------------------------------------------------
(* Significance classifier (src/memory/controller.py) *)

SignificantKeywords ==
    {"medication", "pain", "feel", "doctor", "appointment", "family",
     "remember", "forgot", "worried", "happy", "sad", "lonely"}

(* A length test that counts 10 and 20 words as substantial *)
is_significant_inclusive(user_message, ai_response) ==
    ContainsAny(Combined(user_message, ai_response), SignificantKeywords)
        \/ Len(user_message) >= 10 \/ Len(ai_response) >= 20

_is_significant_interaction(user_message, ai_response) ==
    LET has_keywords ==
            ContainsAny(Combined(user_message, ai_response), SignificantKeywords)
        is_substantial == Len(user_message) > 10 \/ Len(ai_response) > 20
    IN  has_keywords \/ is_substantial

(* The keyword lists of _classify_interaction_type, in the order of its   *)
(* if / elif chain                                                         *)
TypeBuckets ==
    <<[type |-> "health", words |-> {"medication", "pill", "doctor", "pain", "hurt"}],
      [type |-> "emotion", words |-> {"feel", "sad", "happy", "lonely", "worried"}],
      [type |-> "event", words |-> {"remember", "forgot", "yesterday", "last week"}],
      [type |-> "preference", words |-> {"like", "enjoy", "prefer", "favorite"}]>>

(* A chain that tests the event keywords before the health keywords *)
classify_event_first(user_message) ==
    IF ContainsAny(user_message, {"remember", "forgot", "yesterday", "last week"})
    THEN "event"
    ELSE IF ContainsAny(user_message, {"medication", "pill", "doctor", "pain", "hurt"})
    THEN "health"
    ELSE IF ContainsAny(user_message, {"feel", "sad", "happy", "lonely", "worried"})
    THEN "emotion"
    ELSE IF ContainsAny(user_message, {"like", "enjoy", "prefer", "favorite"})
    THEN "preference"
    ELSE "interaction"

_classify_interaction_type(user_message) ==
    IF ContainsAny(user_message, {"medication", "pill", "doctor", "pain", "hurt"})
    THEN "health"
    ELSE IF ContainsAny(user_message, {"feel", "sad", "happy", "lonely", "worried"})
    THEN "emotion"
    ELSE IF ContainsAny(user_message, {"remember", "forgot", "yesterday", "last week"})
    THEN "event"
    ELSE IF ContainsAny(user_message, {"like", "enjoy", "prefer", "favorite"})
    THEN "preference"
    ELSE "interaction"

(* list(set(tags)): the tags as a set *)
_extract_tags(user_message, ai_response) ==
    LET combined_text == Combined(user_message, ai_response)
        health_terms == {"medication", "doctor", "pain", "appointment", "symptom"}
        emotion_terms == {"happy", "sad", "worried", "anxious", "lonely"}
    IN  {t \in health_terms \cup emotion_terms : Contains(combined_text, t)}
        \cup (IF ContainsAny(combined_text, {"today", "morning", "evening"})
              THEN {"daily"} ELSE {})
        \cup (IF ContainsAny(combined_text, {"yesterday", "last week", "remember"})
              THEN {"memory"} ELSE {})

----------------------------------------------------------------------------
(* Optional values, and what a call hands to its caller *)

Nothing == <<>>
Some(v) == <<v>>
EmptyMetadata == [k \in {} |-> k]

Returned(v) == [raised |-> FALSE, value |-> v]
Raised == [raised |-> TRUE, value |-> <<>>]

(* The members of a finite set of documents in the order of their ids *)
RECURSIVE ById(_)
ById(docs) ==
    IF docs = {} THEN <<>>
    ELSE LET first == CHOOSE d \in docs : \A e \in docs : d.id <= e.id
         IN  <<first>> \o ById(docs \ {first})

----------------------------------------------------------------------------
(* MemoryStorage (src/memory/storage.py) *)

FragmentId(n) == <<"fragment", n>>
VectorId(n) == <<"vector", n>>

(* get_user_profile without its except clause: the failure escapes *)
get_user_profile_reraising(profiles, user_id, fail) ==
    IF fail THEN Raised
    ELSE LET docs == {d \in profiles : d.profile.user_id = user_id}
         IN  Returned(IF docs = {} THEN Nothing ELSE Some(ById(docs)[1].profile))

(* find_one({"user_id": user_id}); a failure is logged and None returned *)
get_user_profile(profiles, user_id, fail) ==
    IF fail THEN Returned(Nothing)
    ELSE LET docs == {d \in profiles : d.profile.user_id = user_id}
         IN  Returned(IF docs = {} THEN Nothing ELSE Some(ById(docs)[1].profile))

(* MemoryFragment(...).model_dump() as store_interaction builds it *)
MemoryFragment(user_id, timestamp, type, content, tags, retention, metadata) ==
    [user_id |-> user_id, timestamp |-> timestamp, type |-> type,
     content |-> content, tags |-> tags, embedding_id |-> Nothing,
     retention |-> retention, metadata |-> metadata]

(* insert_one(fragment.model_dump()): the stored document and its new _id *)
store_memory_fragment(fragments, fragment, n) ==
    fragments \cup {[id |-> n, fragment |-> fragment]}

(* The documents sorted by timestamp, newest first; equal timestamps in the *)
(* order the documents were inserted                                        *)
RECURSIVE NewestFirst(_)
NewestFirst(docs) ==
    IF docs = {} THEN <<>>
    ELSE LET first == CHOOSE d \in docs : \A e \in docs :
                         \/ d.fragment.timestamp > e.fragment.timestamp
                         \/ /\ d.fragment.timestamp = e.fragment.timestamp
                            /\ d.id <= e.id
         IN  <<first>> \o NewestFirst(docs \ {first})

(* A find on the user alone *)
get_memories_any_retention(fragments, user_id, limit, fail) ==
    IF fail THEN Returned(<<>>)
    ELSE LET docs == {d \in fragments : d.fragment.user_id = user_id}
             sorted == Take(NewestFirst(docs), limit)
         IN  Returned([i \in DOMAIN sorted |-> sorted[i].fragment])

(* find({user_id, retention: active}).sort(timestamp, -1).limit(limit); the *)
(* _id is popped from each document; a failure is logged and [] returned    *)
get_active_memories(fragments, user_id, limit, fail) ==
    IF fail THEN Returned(<<>>)
    ELSE LET docs == {d \in fragments : /\ d.fragment.user_id = user_id
                                        /\ d.fragment.retention = "active"}
             sorted == Take(NewestFirst(docs), limit)
         IN  Returned([i \in DOMAIN sorted |-> sorted[i].fragment])

(* A filter on the age alone *)
ArchivableIgnoringRetention(d, now) == d.fragment.timestamp < now - memory_active_days

(* A filter on the retention alone *)
ArchivableAnyAge(d, now) == d.fragment.retention = "active"

(* update_many({retention: active, timestamp < cutoff}, {retention: archive}) *)
Archivable(d, now) ==
    /\ d.fragment.retention = "active"
    /\ d.fragment.timestamp < now - memory_active_days

archive_old_memories(fragments, now, fail) ==
    IF fail THEN [fragments |-> fragments, count |-> 0]
    ELSE [fragments |->
            {IF Archivable(d, now)
             THEN [d EXCEPT !.fragment.retention = "archive"]
             ELSE d : d \in fragments},
          count |-> Cardinality({d \in fragments : Archivable(d, now)})]

----------------------------------------------------------------------------
(* SemanticMemory (src/memory/semantic.py) *)

(* EmbeddingService.embed: the sentence-transformer, a deterministic       *)
(* function of the whole text; here the set of the text's lowered words    *)
embed(text) == {Lower(text[i]) : i \in DOMAIN text}

(* The index's similarity metric between two embeddings *)
Score(a, b) == Cardinality(a \cap b)

(* content[:1000], the first 1000 characters. The texts of the dialogue    *)
(* are sequences of words and shorter than that, so the slice keeps them   *)
(* whole; a text whose length counts is the sequence of its characters.    *)
Preview(content) == Take(content, 1000)

(* The entry store_memory_vector upserts: the caller's metadata is spread  *)
(* last and overrides the keys set before it                               *)
VectorEntry(vector_id, user_id, content, timestamp, metadata) ==
    [id |-> vector_id,
     values |-> embed(content),
     metadata |-> metadata @@ [user_id |-> user_id,
                               content |-> Preview(content),
                               timestamp |-> timestamp]]

store_memory_vector(index, vector_id, user_id, content, timestamp, metadata) ==
    index \cup {VectorEntry(vector_id, user_id, content, timestamp, metadata)}

(* index.query: the entries passing the filter, best score first (equal    *)
(* scores in the order of their ids), cut to top_k                         *)
RECURSIVE Ranked(_, _)
Ranked(entries, q) ==
    IF entries = {} THEN <<>>
    ELSE LET first == CHOOSE d \in entries : \A e \in entries :
                         \/ Score(q, d.values) > Score(q, e.values)
                         \/ /\ Score(q, d.values) = Score(q, e.values)
                            /\ d.id[2] <= e.id[2]
         IN  <<first>> \o Ranked(entries \ {first}, q)

(* A filter on the user alone *)
MatchesUserOnly(entry, user_id, retention) == entry.metadata.user_id = user_id

(* filter_dict: user_id, and retention when one is given *)
Matches(entry, user_id, retention) ==
    /\ entry.metadata.user_id = user_id
    /\ retention # Nothing => entry.metadata.retention = retention[1]

(* The memory dict search_memories builds from a match *)
Memory(match, q) ==
    [id |-> match.id,
     score |-> Score(q, match.values),
     content |-> match.metadata.content,
     timestamp |-> match.metadata.timestamp,
     tags |-> match.metadata.tags,
     type |-> match.metadata.type,
     metadata |-> match.metadata]

(* search_memories without its except clause: the failure escapes *)
search_memories_reraising(index, user_id, query, top_k, retention, fail) ==
    IF fail THEN Raised
    ELSE LET q == embed(query)
             hits == {e \in index : Matches(e, user_id, retention)}
             top == Take(Ranked(hits, q), top_k)
         IN  Returned([i \in DOMAIN top |-> Memory(top[i], q)])

(* A failure is logged and [] returned *)
search_memories(index, user_id, query, top_k, retention, fail) ==
    IF fail THEN Returned(<<>>)
    ELSE LET q == embed(query)
             hits == {e \in index : Matches(e, user_id, retention)}
             top == Take(Ranked(hits, q), top_k)
         IN  Returned([i \in DOMAIN top |-> Memory(top[i], q)])

----------------------------------------------------------------------------
(* SessionManager.format_recent_context: a string is the sequence of its   *)
(* lines, a line the sequence of its words                                 *)

RECURSIVE TranscriptLines(_)
TranscriptLines(interactions) ==
    IF interactions = <<>> THEN <<>>
    ELSE LET interaction == Head(interactions)
         IN  << <<"[", ToString(interaction.timestamp), "]">>,
                <<"User:">> \o interaction.user,
                <<"AI:">> \o interaction.ai,
                <<>> >> \o TranscriptLines(Tail(interactions))

format_recent_context(list, fail) ==
    LET interactions == get_recent_interactions(list, 0, fail)
    IN  IF interactions = <<>>
        THEN Returned(<< <<"No recent interactions.">> >>)
        ELSE Returned(TranscriptLines(interactions))

----------------------------------------------------------------------------
(* MemoryController (src/memory/controller.py) *)

SyntheticProfile(user_id) ==
    [user_id |-> user_id, name |-> "Friend", age |-> 0,
     conditions |-> <<>>, interests |-> <<>>]

FirstConversation == <<"This is our first conversation today.">>
NoRelevantMemories == <<"No specific relevant memories found.">>
NoRecentEvents == <<"No recent events recorded.">>

MemoryLines(relevant_memories) ==
    [i \in DOMAIN relevant_memories |->
        <<"-">> \o relevant_memories[i].content
            \o <<"(Relevance:", ToString(relevant_memories[i].score), ")">>]

EventLines(recent_fragments) ==
    [i \in DOMAIN recent_fragments |->
        <<"-", "[", ToString(recent_fragments[i].timestamp), "]">>
            \o recent_fragments[i].content]

_format_context(user_profile, recent_interactions, relevant_memories, recent_fragments, user_message) ==
    LET profile_text ==
            << <<"User Profile:">>,
               <<"Name:", user_profile.name>>,
               <<"Age:", ToString(user_profile.age)>>,
               <<"Health Conditions:">> \o
                   (IF user_profile.conditions # <<>>
                    THEN user_profile.conditions ELSE <<"None recorded">>),
               <<"Interests:">> \o
                   (IF user_profile.interests # <<>>
                    THEN user_profile.interests ELSE <<"None recorded">>) >>
        interactions_text ==
            << <<"Recent Conversation History:">> >> \o
                (IF recent_interactions # <<>>
                 THEN recent_interactions ELSE <<FirstConversation>>)
        memories_text ==
            << <<"Relevant Long-term Memories:">> >> \o
                (IF relevant_memories # <<>>
                 THEN MemoryLines(Take(relevant_memories, 3))
                 ELSE <<NoRelevantMemories>>)
        events_text ==
            << <<"Recent Events and Context:">> >> \o
                (IF recent_fragments # <<>>
                 THEN EventLines(Take(recent_fragments, 5))
                 ELSE <<NoRecentEvents>>)
    IN  << <<"You are a caring AI companion supporting an elderly user.">> >>
        \o profile_text \o interactions_text \o memories_text \o events_text
        \o << <<"Current Message:">> \o user_message, <<"Instructions:">> >>

(* f"User: {user_message}\nAI: {ai_response}" *)
Content(user_message, ai_response) ==
    <<"User:">> \o user_message \o <<"AI:">> \o ai_response

StoreFailPoints == AddFailPoints \cup {"insert_fragment", "upsert_vector"}

(* Other orders of the statements: long-term writes for every exchange,    *)
(* the vector before the fragment, the session append last                 *)
StoreStepsUnconditional(significant) ==
    <<"session", "insert_fragment", "upsert_vector">>

StoreStepsVectorFirst(significant) ==
    IF significant THEN <<"session", "upsert_vector", "insert_fragment">>
    ELSE <<"session">>

StoreStepsSessionLast(significant) ==
    IF significant THEN <<"insert_fragment", "upsert_vector", "session">>
    ELSE <<"session">>

(* The statements of store_interaction's try block, in the order they run: *)
(* the session append, then for a significant exchange the fragment insert *)
(* and the vector upsert                                                   *)
StoreSteps(significant) ==
    IF significant THEN <<"session", "insert_fragment", "upsert_vector">>
    ELSE <<"session">>

(* The statement a failing backend command belongs to *)
FailingStep(failAt) == IF failAt \in {"rpush", "ltrim", "expire"} THEN "session" ELSE failAt

(* An exception leaves the try block: the statements that ran to their end, *)
(* and the statements that were begun                                       *)
RECURSIVE Completed(_, _)
Completed(steps, failing) ==
    IF steps = <<>> \/ Head(steps) = failing THEN <<>>
    ELSE <<Head(steps)>> \o Completed(Tail(steps), failing)

Begun(steps, failing) == Take(steps, Len(Completed(steps, failing)) + 1)

(* store_interaction: the session list and expiry, the fragment collection *)
(* and the index after the call, the backend writes it completed (trace),  *)
(* what it raised to its caller, and the fragment object it holds at the   *)
(* end.  n is the fresh id of this call, stamp its utcnow() reading.       *)
store_interaction(list, expiry, fragments, index, n, stamp, user_id, user_message, ai_response, failAt) ==
    LET significant == _is_significant_interaction(user_message, ai_response)
        steps == StoreSteps(significant)
        completed == Completed(steps, FailingStep(failAt))
        begun == Begun(steps, FailingStep(failAt))
        sessionFail == IF failAt \in AddFailPoints THEN failAt ELSE "none"
        added == IF "session" \in Range(begun)
                 THEN add_interaction(list, expiry, stamp, user_message,
                                      ai_response, sessionFail)
                 ELSE [list |-> list, expiry |-> expiry, raised |-> FALSE]
        fragment == MemoryFragment(user_id, stamp[1],
                                   _classify_interaction_type(user_message),
                                   Content(user_message, ai_response),
                                   _extract_tags(user_message, ai_response),
                                   "active", EmptyMetadata)
        inserted == "insert_fragment" \in Range(completed)
        upserted == "upsert_vector" \in Range(completed)
        StepTrace(step) ==
            IF step = "session" THEN AddTrace(sessionFail)
            ELSE IF step \in Range(completed) THEN <<step>> ELSE <<>>
        Traces[k \in 0..Len(begun)] ==
            IF k = 0 THEN <<>> ELSE Traces[k - 1] \o StepTrace(begun[k])
    IN  [list |-> added.list,
         expiry |-> added.expiry,
         fragments |-> IF inserted
                       THEN store_memory_fragment(fragments, fragment, n)
                       ELSE fragments,
         index |-> IF upserted
                   THEN store_memory_vector(index, VectorId(n), user_id,
                            fragment.content, stamp,
                            [type |-> fragment.type, tags |-> fragment.tags,
                             retention |-> fragment.retention,
                             fragment_id |-> Some(FragmentId(n))])
                   ELSE index,
         trace |-> Traces[Len(begun)],
         raised |-> FALSE,
         significant |-> significant,
         fragment |-> IF upserted
                      THEN [fragment EXCEPT !.embedding_id = Some(VectorId(n))]
                      ELSE fragment]

(* The bundle of the except branch *)
DegradedBundle(user_id, user_message) ==
    [user_profile |-> [user_id |-> user_id, name |-> "Friend"],
     recent_interactions |-> <<>>,
     relevant_memories |-> <<>>,
     recent_fragments |-> <<>>,
     context_string |-> << <<"User", "says:">> \o user_message >>]

Reads == {"profile", "session", "search", "fragments"}

(* assemble_context over the three backends; failed names the reads whose  *)
(* backend call fails                                                      *)
assemble_context(profiles, list, index, fragments, user_id, user_message, failed) ==
    LET found == get_user_profile(profiles, user_id, "profile" \in failed)
        transcript == format_recent_context(list, "session" \in failed)
        search == search_memories(index, user_id, user_message, 5,
                                  Some("active"), "search" \in failed)
        recent == get_active_memories(fragments, user_id, 10, "fragments" \in failed)
    IN  IF found.raised \/ transcript.raised \/ search.raised \/ recent.raised
        THEN DegradedBundle(user_id, user_message)
        ELSE LET user_profile == IF found.value = Nothing
                                 THEN SyntheticProfile(user_id)
                                 ELSE found.value[1]
             IN  [user_profile |-> user_profile,
                  recent_interactions |-> transcript.value,
                  relevant_memories |-> search.value,
                  recent_fragments |-> recent.value,
                  context_string |->
                      _format_context(user_profile, transcript.value, search.value,
                                      recent.value, user_message)]

----------------------------------------------------------------------------
(* AIClient (src/ai/client.py) *)

(* What a provider does with a request: it returns a response with success *)
(* true, a response with success false, or it raises                       *)
ProviderOutcomes == {"success", "unsuccessful", "raises"}

(* settings.ai_provider *)
ai_provider == "mistral"

(* The providers that are left of a list when those in broken are dropped *)
RECURSIVE Without(_, _)
Without(providers, broken) ==
    IF providers = <<>> THEN <<>>
    ELSE IF Head(providers) \in broken THEN Without(Tail(providers), broken)
    ELSE <<Head(providers)>> \o Without(Tail(providers), broken)

(* AIClient.initialize: broken are the providers whose own initialize      *)
(* raises. A broken primary provider makes the call raise, a broken        *)
(* fallback provider is left out with a warning.                           *)
initialize(client, ai_fallback_providers, broken) ==
    IF client.initialized THEN [client |-> client, raised |-> FALSE]
    ELSE IF ai_provider \in broken THEN [client |-> client, raised |-> TRUE]
    ELSE [client |-> [initialized |-> TRUE,
                      primary_provider |-> ai_provider,
                      fallback_providers |-> Without(ai_fallback_providers, broken)],
          raised |-> FALSE]

(* The AIResponse dataclass (src/ai/base.py), the fields the callers read *)
AIResponse(response, provider, success, error) ==
    [response |-> response, provider |-> provider, success |-> success, error |-> error]

Apology == <<"I", "apologize,", "but", "I'm", "unable", "to", "process", "your", "request">>

(* A loop that asks the first provider only *)
TryPrimaryOnly(providers, outcome, text, called, last_error) ==
    IF providers = <<>> \/ called # <<>>
    THEN [called |-> called,
          response |-> AIResponse(Apology, "mistral", FALSE,
                                  <<"All providers failed.", "Last error:", last_error>>)]
    ELSE IF outcome[1] = "success"
    THEN [called |-> <<Head(providers)>>,
          response |-> AIResponse(text, Head(providers), TRUE, None)]
    ELSE [called |-> <<Head(providers)>>,
          response |-> AIResponse(Apology, "mistral", FALSE,
                                  <<"All providers failed.", "Last error:",
                                    <<Head(providers), outcome[1]>>>>)]

(* The for loop of generate_response without streaming: outcome[i] is what *)
(* the i-th provider called does; called are the providers called so far,  *)
(* last_error the error of the last one that failed                        *)
RECURSIVE TryProviders(_, _, _, _, _)
TryProviders(providers, outcome, text, called, last_error) ==
    IF providers = <<>>
    THEN [called |-> called,
          response |-> AIResponse(Apology, "mistral", FALSE,
                                  <<"All providers failed.", "Last error:", last_error>>)]
    ELSE LET provider == Head(providers)
             now == Append(called, provider)
         IN  IF outcome[Len(now)] = "success"
             THEN [called |-> now, response |-> AIResponse(text, provider, TRUE, None)]
             ELSE TryProviders(Tail(providers), outcome, text, now,
                               <<provider, outcome[Len(now)]>>)

(* AIClient.generate_response(stream=False): the client after the call,    *)
(* whether the call raised, the providers it called and what it returned   *)
generate_response(client, ai_fallback_providers, broken, outcome, text) ==
    LET init == initialize(client, ai_fallback_providers, broken)
        providers_to_try ==
            <<init.client.primary_provider>> \o init.client.fallback_providers
        tried == TryProviders(providers_to_try, outcome, text, <<>>, None)
    IN  IF init.raised
        THEN [client |-> init.client, raised |-> TRUE, called |-> <<>>,
              response |-> Nothing]
        ELSE [client |-> init.client, raised |-> FALSE, called |-> tried.called,
              response |-> Some(tried.response)]

(* AIClient.generate_streaming_response: generate_response(stream=True)    *)
(* hands out the generator of the first provider and asks no other         *)
generate_streaming_response(client, ai_fallback_providers, broken, outcome, text) ==
    LET init == initialize(client, ai_fallback_providers, broken)
    IN  IF init.raised
        THEN [client |-> init.client, raised |-> TRUE, called |-> <<>>,
              chunks |-> <<>>]
        ELSE [client |-> init.client,
              raised |-> outcome[1] # "success",
              called |-> <<init.client.primary_provider>>,
              chunks |-> IF outcome[1] = "success" THEN text ELSE <<>>]

----------------------------------------------------------------------------
(* The last handler call *)

Call(op, user, user_message, ai_response, limit, failed, raised, result, trace) ==
    [op |-> op, user |-> user, user_message |-> user_message,
     ai_response |-> ai_response, limit |-> limit, failed |-> failed,
     raised |-> raised, result |-> result, trace |-> trace]

NoCall == Call("init", None, <<>>, <<>>, 0, {}, FALSE, <<>>, <<>>)

(* MemoryScheduler._setup_jobs: the three jobs, by their ids *)
JobIds == {"memory_archival", "memory_cleanup", "stats_logging"}

(* logged: the jobs in whose run an error was logged; errors: the jobs     *)
(* whose exception reached the scheduler; run: the archival or cleanup run *)
(* that last computed its cutoff date, with the collection as it was then, *)
(* and whether its update_many / delete_many has been applied              *)
SchedulerInit == [logged |-> {}, errors |-> {}, run |-> Nothing]

(* AIClient.__init__ (src/ai/client.py) *)
AIClientInit ==
    [initialized |-> FALSE, primary_provider |-> None, fallback_providers |-> <<>>]

Init ==
    /\ session = [u \in Users |-> <<>>]
    /\ sessionExpiry = [u \in Users |-> NoExpiry]
    /\ user_profiles = {}
    /\ memory_fragments = {}
    /\ vectors = {}
    /\ nextId = 1
    /\ clock = 0
    /\ ticks = 0
    /\ writes = 0
    /\ faults = 0
    /\ appended = [u \in Users |-> <<>>]
    /\ scheduler = SchedulerInit
    /\ ai_client = AIClientInit
    /\ background_tasks = {}
    /\ interaction_logs = {}
    /\ served = {}
    /\ creating = {}
    /\ last = NoCall

(* The interactions a completed trace has pushed for the user *)
Pushed(trace, now, user_message, ai_response) ==
    IF "rpush" \in Range(trace)
    THEN <<[timestamp |-> now, user |-> user_message, ai |-> ai_response]>>
    ELSE <<>>

(* datetime.utcnow() at full resolution, as add_interaction reads it for    *)
(* the user: the day, and within the day a reading that differs from every *)
(* reading stored for that user before                                      *)
utcnow(u) == <<clock, Len(appended[u])>>

(* A call may have a backend fail while the failure budget lasts *)
MayFail(failed) == failed = {} \/ faults < MaxFaults
CountFaults(failed) == IF failed = {} THEN faults ELSE faults + 1

(* SessionManager.add_interaction called directly *)
AddInteraction(u, m, r, failAt) ==
    /\ writes < MaxAdds
    /\ MayFail({failAt} \ {"none"})
    /\ faults' = CountFaults({failAt} \ {"none"})
    /\ LET res == add_interaction(session[u], sessionExpiry[u], utcnow(u), m, r, failAt)
       IN  /\ session' = [session EXCEPT ![u] = res.list]
           /\ sessionExpiry' = [sessionExpiry EXCEPT ![u] = res.expiry]
           /\ appended' = [appended EXCEPT
                              ![u] = @ \o Pushed(AddTrace(failAt), utcnow(u), m, r)]
           /\ last' = Call("add_interaction", u, m, r, 0, {failAt} \ {"none"},
                           res.raised, <<>>, AddTrace(failAt))
    /\ writes' = writes + 1
    /\ UNCHANGED scheduler
    /\ UNCHANGED apiVars
    /\ UNCHANGED <<storeVars, clock, ticks>>

(* SessionManager.get_recent_interactions *)
GetRecentInteractions(u, limit, fail) ==
    /\ MayFail(IF fail THEN {"lrange"} ELSE {})
    /\ last' = Call("get_recent_interactions", u, <<>>, <<>>, limit,
                    IF fail THEN {"lrange"} ELSE {}, FALSE,
                    get_recent_interactions(session[u], limit, fail),
                    IF fail THEN <<>> ELSE <<"lrange">>)
    /\ UNCHANGED scheduler
    /\ UNCHANGED apiVars
    /\ UNCHANGED <<sessionVars, storeVars, clock, ticks, writes, faults, appended>>

(* SessionManager.clear_session: redis.delete removes the key and its TTL *)
ClearSession(u, fail) ==
    /\ session[u] # <<>>
    /\ MayFail(IF fail THEN {"delete"} ELSE {})
    /\ session' = [session EXCEPT ![u] = IF fail THEN @ ELSE <<>>]
    /\ sessionExpiry' = [sessionExpiry EXCEPT ![u] = IF fail THEN @ ELSE NoExpiry]
    /\ last' = Call("clear_session", u, <<>>, <<>>, 0,
                    IF fail THEN {"delete"} ELSE {}, fail, <<>>,
                    IF fail THEN <<>> ELSE <<"delete">>)
    /\ UNCHANGED scheduler
    /\ UNCHANGED apiVars
    /\ UNCHANGED <<storeVars, clock, ticks, writes, faults, appended>>

(* Time passes; Redis drops every key whose TTL has run out *)
Expired(u, now) == sessionExpiry[u] # NoExpiry /\ now >= sessionExpiry[u]

Tick(d) ==
    /\ ticks < MaxTicks
    /\ ticks' = ticks + 1
    /\ clock' = clock + d
    /\ session' = [u \in Users |-> IF Expired(u, clock + d) THEN <<>> ELSE session[u]]
    /\ sessionExpiry' = [u \in Users |->
                           IF Expired(u, clock + d) THEN NoExpiry ELSE sessionExpiry[u]]
    /\ last' = NoCall
    /\ UNCHANGED scheduler
    /\ UNCHANGED apiVars
    /\ UNCHANGED <<storeVars, writes, faults, appended>>

(* MemoryController.store_interaction, as the chat route's background task *)
(* calls it                                                                *)
StoreInteraction(u, m, r, failAt) ==
    /\ writes < MaxStores
    /\ failAt \in {"insert_fragment", "upsert_vector"}
          => _is_significant_interaction(m, r)
    /\ MayFail({failAt} \ {"none"})
    /\ faults' = CountFaults({failAt} \ {"none"})
    /\ LET res == store_interaction(session[u], sessionExpiry[u], memory_fragments,
                                    vectors, nextId, utcnow(u), u, m, r, failAt)
       IN  /\ session' = [session EXCEPT ![u] = res.list]
           /\ sessionExpiry' = [sessionExpiry EXCEPT ![u] = res.expiry]
           /\ memory_fragments' = res.fragments
           /\ vectors' = res.index
           /\ appended' = [appended EXCEPT
                              ![u] = @ \o Pushed(res.trace, utcnow(u), m, r)]
           /\ last' = Call("store_interaction", u, m, r, 0, {failAt} \ {"none"},
                           res.raised,
                           [significant |-> res.significant, n |-> nextId,
                            fragment |-> res.fragment],
                           res.trace)
    /\ nextId' = nextId + 1
    /\ writes' = writes + 1
    /\ UNCHANGED scheduler
    /\ UNCHANGED apiVars
    /\ UNCHANGED <<user_profiles, clock, ticks>>

(* POST /memory/create (src/api/routes/memory.py): a failure of either     *)
(* write is answered with status 500                                       *)
CreateMemory(u, content, type, tags, metadata, failAt) ==
    /\ writes < MaxStores
    /\ MayFail({failAt} \ {"none"})
    /\ faults' = CountFaults({failAt} \ {"none"})
    /\ LET fragment == MemoryFragment(u, clock, type, content, tags, "active", metadata)
           inserted == failAt # "insert_fragment"
           upserted == inserted /\ failAt # "upsert_vector"
       IN  /\ memory_fragments' =
                 IF inserted
                 THEN store_memory_fragment(memory_fragments, fragment, nextId)
                 ELSE memory_fragments
           /\ vectors' =
                 IF upserted
                 THEN store_memory_vector(vectors, VectorId(nextId), u, content,
                          utcnow(u),
                          metadata @@ [type |-> type, tags |-> tags,
                                       retention |-> "active",
                                       fragment_id |-> Some(FragmentId(nextId))])
                 ELSE vectors
           /\ last' = Call("create_memory", u, content, <<>>, 0, {failAt} \ {"none"},
                           ~upserted,
                           [significant |-> TRUE, n |-> nextId, fragment |-> fragment],
                           (IF inserted THEN <<"insert_fragment">> ELSE <<>>)
                           \o (IF upserted THEN <<"upsert_vector">> ELSE <<>>))
    /\ nextId' = nextId + 1
    /\ writes' = writes + 1
    /\ UNCHANGED scheduler
    /\ UNCHANGED apiVars
    /\ UNCHANGED <<sessionVars, user_profiles, clock, ticks, appended>>

(* POST /users/create (src/api/routes/users.py) *)
CreateUser(u, name, age, fail) ==
    /\ writes < MaxStores
    /\ MayFail(IF fail THEN {"insert_profile"} ELSE {})
    /\ faults' = CountFaults(IF fail THEN {"insert_profile"} ELSE {})
    /\ LET existing_user == get_user_profile(user_profiles, u, FALSE).value
           conflict == existing_user # Nothing
           profile == [user_id |-> u, name |-> name, age |-> age,
                       conditions |-> <<"hypertension">>, interests |-> <<"gardening">>]
       IN  /\ user_profiles' =
                 IF conflict \/ fail THEN user_profiles
                 ELSE user_profiles \cup {[id |-> nextId, profile |-> profile]}
           /\ last' = Call("create_user", u, <<>>, <<>>, 0,
                           IF fail THEN {"insert_profile"} ELSE {},
                           conflict \/ fail,
                           IF conflict THEN 409 ELSE IF fail THEN 500 ELSE 200,
                           IF conflict \/ fail THEN <<>> ELSE <<"insert_profile">>)
    /\ nextId' = nextId + 1
    /\ writes' = writes + 1
    /\ UNCHANGED scheduler
    /\ UNCHANGED apiVars
    /\ UNCHANGED <<sessionVars, memory_fragments, vectors, clock, ticks, appended>>

(* MemoryController.assemble_context: it reads, and changes nothing *)
AssembleContext(u, m, failed) ==
    /\ MayFail(failed)
    /\ last' = Call("assemble_context", u, m, <<>>, 0, failed, FALSE,
                    assemble_context(user_profiles, session[u], vectors,
                                     memory_fragments, u, m, failed),
                    <<>>)
    /\ UNCHANGED scheduler
    /\ UNCHANGED apiVars
    /\ UNCHANGED <<sessionVars, storeVars, clock, ticks, writes, faults, appended>>

(* Another client of the same Redis pushes a value that is not JSON under  *)
(* the user's key                                                          *)
NotJson == <<"{not json">>

ForeignPush(u) ==
    /\ session' = [session EXCEPT ![u] = rpush(@, NotJson)]
    /\ writes' = writes + 1
    /\ last' = NoCall
    /\ UNCHANGED scheduler
    /\ UNCHANGED apiVars
    /\ UNCHANGED <<sessionExpiry, storeVars, clock, ticks, faults, appended>>

(* GET /memory/{user_id}/recent (src/api/routes/memory.py) *)
GetRecentMemories(u, limit, fail) ==
    /\ MayFail(IF fail THEN {"find"} ELSE {})
    /\ last' = Call("get_active_memories", u, <<>>, <<>>, limit,
                    IF fail THEN {"find"} ELSE {}, FALSE,
                    get_active_memories(memory_fragments, u, limit, fail).value,
                    IF fail THEN <<>> ELSE <<"find">>)
    /\ UNCHANGED scheduler
    /\ UNCHANGED apiVars
    /\ UNCHANGED <<sessionVars, storeVars, clock, ticks, writes, faults, appended>>

(* POST /memory/search (src/api/routes/memory.py) *)
SearchMemories(u, query, top_k, retention, fail) ==
    /\ MayFail(IF fail THEN {"query"} ELSE {})
    /\ last' = Call("search_memories", u, query, <<>>, top_k,
                    IF fail THEN {"query"} ELSE {}, FALSE,
                    [retention |-> retention,
                     results |-> search_memories(vectors, u, query, top_k,
                                                 retention, fail).value],
                    IF fail THEN <<>> ELSE <<"query">>)
    /\ UNCHANGED scheduler
    /\ UNCHANGED apiVars
    /\ UNCHANGED <<sessionVars, storeVars, clock, ticks, writes, faults, appended>>

----------------------------------------------------------------------------
(* MemoryScheduler (src/utils/scheduler.py) *)

(* A job whose body raises, with its except clause removed *)
run_job_unguarded(body_raised) == [raised |-> body_raised, logged |-> FALSE]

(* The try / except Exception of each job: what its body raises is logged  *)
(* and does not leave the job                                              *)
run_job(body_raised) == [raised |-> FALSE, logged |-> body_raised]

(* The scheduler after a run of job id: storage_logged tells whether the   *)
(* storage call logged a failure of its own                                *)
AfterJob(id, outcome, storage_logged) ==
    [scheduler EXCEPT
        !.logged = IF outcome.logged \/ storage_logged THEN @ \cup {id} ELSE @,
        !.errors = IF outcome.raised THEN @ \cup {id} ELSE @]

(* A bulk write computed from the documents read when the job began *)
WriteTargetAsRead(collection, seen) == seen

(* The documents update_many and delete_many work on: the collection as   *)
(* it is when the operation is applied                                     *)
WriteTarget(collection, seen) == collection

(* MemoryScheduler.archive_memories, nothing else running: the fragments   *)
(* are archived in MongoDB; the update of the vectors is left undone (a    *)
(* TODO in the source). archive_old_memories never raises.                 *)
ArchiveMemories(fail) ==
    /\ MayFail(IF fail THEN {"update_many"} ELSE {})
    /\ faults' = CountFaults(IF fail THEN {"update_many"} ELSE {})
    /\ LET res == archive_old_memories(memory_fragments, clock, fail)
           outcome == run_job(FALSE)
       IN  /\ memory_fragments' = res.fragments
           /\ scheduler' = AfterJob("memory_archival", outcome, fail)
           /\ last' = Call("archive_memories", None, <<>>, <<>>, 0,
                           IF fail THEN {"update_many"} ELSE {}, outcome.raised,
                           res.count,
                           IF fail THEN <<>> ELSE <<"update_many">>)
    /\ UNCHANGED apiVars
    /\ UNCHANGED <<sessionVars, user_profiles, vectors, nextId, clock, ticks,
                   writes, appended>>

(* A cleanup that deletes archived fragments only *)
ExpirableArchivedOnly(d, now) ==
    d.fragment.retention = "archive" /\ d.fragment.timestamp < now - memory_archive_days

(* The filter of delete_many: timestamp < utcnow() - memory_archive_days *)
Expirable(d, now) == d.fragment.timestamp < now - memory_archive_days

(* delete_many over a collection: what is left, what was deleted *)
delete_expired(collection, now, fail) ==
    IF fail THEN [fragments |-> collection, deleted |-> {}]
    ELSE [fragments |-> {d \in collection : ~Expirable(d, now)},
          deleted |-> {d \in collection : Expirable(d, now)}]

(* MemoryScheduler.cleanup_expired_memories, nothing else running *)
CleanupExpiredMemories(fail) ==
    /\ MayFail(IF fail THEN {"delete_many"} ELSE {})
    /\ faults' = CountFaults(IF fail THEN {"delete_many"} ELSE {})
    /\ LET res == delete_expired(memory_fragments, clock, fail)
           outcome == run_job(fail)
       IN  /\ memory_fragments' = res.fragments
           /\ scheduler' = AfterJob("memory_cleanup", outcome, FALSE)
           /\ last' = Call("cleanup_expired_memories", None, <<>>, <<>>, 0,
                           IF fail THEN {"delete_many"} ELSE {}, outcome.raised,
                           [deleted_count |-> Cardinality(res.deleted),
                            deleted |-> res.deleted],
                           IF fail THEN <<>> ELSE <<"delete_many">>)
    /\ UNCHANGED apiVars
    /\ UNCHANGED <<sessionVars, user_profiles, vectors, nextId, clock, ticks,
                   writes, appended>>

(* MemoryScheduler.log_memory_stats: the counts it logs *)
LogMemoryStats(fail) ==
    /\ MayFail(IF fail THEN {"count_documents"} ELSE {})
    /\ faults' = CountFaults(IF fail THEN {"count_documents"} ELSE {})
    /\ LET outcome == run_job(fail)
           stats == [users |-> Cardinality(user_profiles),
                     active_memories |->
                        Cardinality({d \in memory_fragments :
                                        d.fragment.retention = "active"}),
                     archived_memories |->
                        Cardinality({d \in memory_fragments :
                                        d.fragment.retention = "archive"})]
       IN  /\ scheduler' = AfterJob("stats_logging", outcome, FALSE)
           /\ last' = Call("log_memory_stats", None, <<>>, <<>>, 0,
                           IF fail THEN {"count_documents"} ELSE {}, outcome.raised,
                           IF fail THEN <<>> ELSE <<stats>>,
                           IF fail THEN <<>> ELSE <<"count_documents">>)
    /\ UNCHANGED apiVars
    /\ UNCHANGED <<sessionVars, storeVars, clock, ticks, writes, appended>>

(* The archival or the cleanup job while other coroutines run: the job     *)
(* computes its cutoff date from utcnow(), and awaits the one update_many  *)
(* or delete_many, which MongoDB applies to the collection as it is then   *)
Running == scheduler.run # Nothing /\ ~scheduler.run[1].done

BeginJob(id) ==
    /\ id \in {"memory_archival", "memory_cleanup"}
    /\ ~Running
    /\ scheduler' = [scheduler EXCEPT
                        !.run = Some([job |-> id, now |-> clock,
                                      seen |-> memory_fragments, done |-> FALSE])]
    /\ last' = NoCall
    /\ UNCHANGED apiVars
    /\ UNCHANGED <<sessionVars, storeVars, clock, ticks, writes, faults, appended>>

ApplyArchive ==
    /\ Running
    /\ scheduler.run[1].job = "memory_archival"
    /\ LET run == scheduler.run[1]
           res == archive_old_memories(WriteTarget(memory_fragments, run.seen),
                                       run.now, FALSE)
           outcome == run_job(FALSE)
       IN  /\ memory_fragments' = res.fragments
           /\ scheduler' = [AfterJob("memory_archival", outcome, FALSE)
                               EXCEPT !.run = Some([run EXCEPT !.done = TRUE])]
           /\ last' = Call("archive_memories", None, <<>>, <<>>, 0, {},
                           outcome.raised, res.count, <<"update_many">>)
    /\ UNCHANGED apiVars
    /\ UNCHANGED <<sessionVars, user_profiles, vectors, nextId, clock, ticks,
                   writes, faults, appended>>

ApplyCleanup ==
    /\ Running
    /\ scheduler.run[1].job = "memory_cleanup"
    /\ LET run == scheduler.run[1]
           res == delete_expired(WriteTarget(memory_fragments, run.seen),
                                 run.now, FALSE)
           outcome == run_job(FALSE)
       IN  /\ memory_fragments' = res.fragments
           /\ scheduler' = [AfterJob("memory_cleanup", outcome, FALSE)
                               EXCEPT !.run = Some([run EXCEPT !.done = TRUE])]
           /\ last' = Call("cleanup_expired_memories", None, <<>>, <<>>, 0, {},
                           outcome.raised,
                           [deleted_count |-> Cardinality(res.deleted),
                            deleted |-> res.deleted],
                           <<"delete_many">>)
    /\ UNCHANGED apiVars
    /\ UNCHANGED <<sessionVars, user_profiles, vectors, nextId, clock, ticks,
                   writes, faults, appended>>

----------------------------------------------------------------------------
(* The chat routes (src/api/routes/ai.py) *)

(* request.session_id or str(uuid.uuid4()), for a request that names none *)
SessionId(n) == <<"session", n>>

(* The arguments add_task hands to store_interaction_background *)
Task(user_id, session_id, user_message, ai_response) ==
    [user_id |-> user_id, session_id |-> session_id,
     user_message |-> user_message, ai_response |-> ai_response]

(* The InteractionLog store_interaction_background builds *)
InteractionLog(task, timestamp) ==
    [user_id |-> task.user_id, session_id |-> task.session_id,
     timestamp |-> timestamp, user_message |-> task.user_message,
     ai_response |-> task.ai_response]

(* MemoryStorage.log_interaction: insert_one(log.model_dump()) *)
log_interaction(logs, log, n) == logs \cup {[id |-> n, log |-> log]}

(* A pair an endpoint has served *)
Pair(task, endpoint) ==
    [session_id |-> task.session_id, user_id |-> task.user_id,
     user_message |-> task.user_message, ai_response |-> task.ai_response,
     endpoint |-> endpoint]

(* POST /respond: the context is assembled, the completion asked of the    *)
(* AI client and, when it succeeded, store_interaction_background added as *)
(* a background task; any failure is answered with status 500. outcome[i]  *)
(* is what the i-th provider asked does, text what a successful one says.  *)
Respond(u, m, text, ai_fallback_providers, broken, outcome) ==
    /\ writes < MaxStores
    /\ LET context == assemble_context(user_profiles, session[u], vectors,
                                       memory_fragments, u, m, {})
           response_data ==
               generate_response(ai_client, ai_fallback_providers, broken, outcome, text)
           ok == ~response_data.raised /\ response_data.response[1].success
           task == Task(u, SessionId(nextId), m, text)
       IN  /\ ai_client' = response_data.client
           /\ background_tasks' =
                 IF ok THEN background_tasks \cup {task} ELSE background_tasks
           /\ served' = IF ok THEN served \cup {Pair(task, "/respond")} ELSE served
           /\ last' = Call("respond", u, m, IF ok THEN text ELSE <<>>, 0, broken, ~ok,
                           [status |-> IF ok THEN 200 ELSE 500,
                            context_string |-> context.context_string,
                            client_raised |-> response_data.raised,
                            response |-> response_data.response,
                            outcome |-> Take(outcome, Len(response_data.called))],
                           response_data.called)
    /\ nextId' = nextId + 1
    /\ writes' = writes + 1
    /\ UNCHANGED <<interaction_logs, creating, scheduler>>
    /\ UNCHANGED <<sessionVars, user_profiles, memory_fragments, vectors, clock,
                   ticks, faults, appended>>

(* POST /respond/stream: the context is assembled and the chunks of the    *)
(* first provider are sent as they come; the route adds no background task *)
RespondStream(u, m, text, ai_fallback_providers, broken, outcome) ==
    /\ writes < MaxStores
    /\ LET context == assemble_context(user_profiles, session[u], vectors,
                                       memory_fragments, u, m, {})
           stream == generate_streaming_response(ai_client, ai_fallback_providers,
                                                 broken, outcome, text)
           ok == ~stream.raised
           task == Task(u, SessionId(nextId), m, text)
       IN  /\ ai_client' = stream.client
           /\ served' = IF ok THEN served \cup {Pair(task, "/respond/stream")}
                        ELSE served
           /\ last' = Call("respond_stream", u, m, stream.chunks, 0, broken, ~ok,
                           [status |-> 200,
                            context_string |-> context.context_string,
                            client_raised |-> stream.raised,
                            outcome |-> Take(outcome, Len(stream.called))],
                           stream.called)
    /\ nextId' = nextId + 1
    /\ writes' = writes + 1
    /\ UNCHANGED <<background_tasks, interaction_logs, creating, scheduler>>
    /\ UNCHANGED <<sessionVars, user_profiles, memory_fragments, vectors, clock,
                   ticks, faults, appended>>

(* store_interaction_background, run by the server after the response has  *)
(* been sent: store_interaction, which raises nothing, then log_interaction; *)
(* a failure of the insert is logged and the task ends                     *)
StoreInteractionBackground(task, failAt, log_fails) ==
    /\ task \in background_tasks
    /\ failAt \in {"insert_fragment", "upsert_vector"}
          => _is_significant_interaction(task.user_message, task.ai_response)
    /\ failAt = "none" \/ ~log_fails
    /\ LET u == task.user_id
           failed == ({failAt} \ {"none"})
                        \cup (IF log_fails THEN {"insert_log"} ELSE {})
           res == store_interaction(session[u], sessionExpiry[u], memory_fragments,
                                    vectors, nextId, utcnow(u), u, task.user_message,
                                    task.ai_response, failAt)
       IN  /\ MayFail(failed)
           /\ faults' = CountFaults(failed)
           /\ session' = [session EXCEPT ![u] = res.list]
           /\ sessionExpiry' = [sessionExpiry EXCEPT ![u] = res.expiry]
           /\ memory_fragments' = res.fragments
           /\ vectors' = res.index
           /\ appended' = [appended EXCEPT
                              ![u] = @ \o Pushed(res.trace, utcnow(u),
                                                 task.user_message, task.ai_response)]
           /\ interaction_logs' =
                 IF log_fails THEN interaction_logs
                 ELSE log_interaction(interaction_logs, InteractionLog(task, clock),
                                      nextId)
           /\ last' = Call("store_interaction_background", u, task.user_message,
                           task.ai_response, 0, failed, FALSE,
                           [session_id |-> task.session_id, n |-> nextId],
                           res.trace \o (IF log_fails THEN <<>> ELSE <<"insert_log">>))
    /\ background_tasks' = background_tasks \ {task}
    /\ nextId' = nextId + 1
    /\ UNCHANGED <<ai_client, served, creating, scheduler>>
    /\ UNCHANGED <<user_profiles, clock, ticks, writes>>

----------------------------------------------------------------------------
(* The classifier functions of the controller applied to one exchange, as  *)
(* store_interaction applies them                                          *)
Classify(m, r) ==
    /\ last' = Call("classify", None, m, r, 0, {}, FALSE,
                    [significant |-> _is_significant_interaction(m, r),
                     type |-> _classify_interaction_type(m),
                     tags |-> _extract_tags(m, r)],
                    <<>>)
    /\ UNCHANGED apiVars
    /\ UNCHANGED <<sessionVars, storeVars, clock, ticks, writes, faults, appended,
                   scheduler>>

----------------------------------------------------------------------------
(* POST /users/create while other requests are handled: the handler awaits *)
(* get_user_profile, then awaits create_user_profile, and the event loop   *)
(* runs other handlers at either await                                     *)

UserProfile(user_id, name, age) ==
    [user_id |-> user_id, name |-> name, age |-> age,
     conditions |-> <<"hypertension">>, interests |-> <<"gardening">>]

(* The handler up to the answer of get_user_profile: a profile found is    *)
(* answered with status 409, otherwise the handler goes on to the insert   *)
CreateUserCheck(u, name, age, fail) ==
    /\ writes < MaxCreates
    /\ MayFail(IF fail THEN {"find_one"} ELSE {})
    /\ faults' = CountFaults(IF fail THEN {"find_one"} ELSE {})
    /\ LET existing_user == get_user_profile(user_profiles, u, fail).value
           conflict == existing_user # Nothing
       IN  /\ creating' =
                 IF conflict THEN creating
                 ELSE creating \cup {[request |-> nextId,
                                      profile |-> UserProfile(u, name, age)]}
           /\ last' = Call("create_user", u, <<>>, <<>>, 0,
                           IF fail THEN {"find_one"} ELSE {}, conflict,
                           IF conflict THEN 409 ELSE 0,
                           IF fail THEN <<>> ELSE <<"find_one">>)
    /\ nextId' = nextId + 1
    /\ writes' = writes + 1
    /\ UNCHANGED <<ai_client, background_tasks, interaction_logs, served, scheduler>>
    /\ UNCHANGED <<sessionVars, user_profiles, memory_fragments, vectors, clock,
                   ticks, appended>>

(* The rest of the handler: create_user_profile inserts the document; a    *)
(* failure of the insert is answered with status 500                       *)
CreateUserInsert(req, fail) ==
    /\ req \in creating
    /\ MayFail(IF fail THEN {"insert_profile"} ELSE {})
    /\ faults' = CountFaults(IF fail THEN {"insert_profile"} ELSE {})
    /\ user_profiles' =
          IF fail THEN user_profiles
          ELSE user_profiles \cup {[id |-> nextId, profile |-> req.profile]}
    /\ creating' = creating \ {req}
    /\ last' = Call("create_user", req.profile.user_id, <<>>, <<>>, 0,
                    IF fail THEN {"insert_profile"} ELSE {}, fail,
                    IF fail THEN 500 ELSE 200,
                    IF fail THEN <<>> ELSE <<"insert_profile">>)
    /\ nextId' = nextId + 1
    /\ UNCHANGED <<ai_client, background_tasks, interaction_logs, served, scheduler>>
    /\ UNCHANGED <<sessionVars, memory_fragments, vectors, clock, ticks, writes,
                   appended>>

----------------------------------------------------------------------------
(* Inputs *)

SessionMessages == {Hi}
Limits == {0, 1, memory_context_limit \div 2, memory_context_limit, MaxLimit}

Exchanges == {<<Hi, Hello>>, <<ForgotMedication, PleaseRemember>>}
Queries == {ForgotMedication}
RequestMetadata == {EmptyMetadata}
TimeSteps == {1, memory_active_days, memory_archive_days}
FragmentLimits == {1, 10}
TopKs == {1, 5}
Retentions == {Nothing, Some("active"), Some("archive")}
SearchMetadata == {EmptyMetadata, [retention |-> "archive"]}

(* The session cache on its own *)
NextSession ==
    \/ \E u \in Users, m \in SessionMessages, f \in AddFailPoints :
          AddInteraction(u, m, Hello, f)
    \/ \E u \in Users, k \in Limits, fail \in BOOLEAN : GetRecentInteractions(u, k, fail)
    \/ \E u \in Users, fail \in BOOLEAN : ClearSession(u, fail)

SpecSession == Init /\ [][NextSession]_vars

(* The controller over the three stores, with failing backends *)
Next ==
    \/ \E u \in Users, x \in Exchanges, f \in StoreFailPoints :
          StoreInteraction(u, x[1], x[2], f)
    \/ \E u \in Users, md \in RequestMetadata,
          f \in {"none", "insert_fragment", "upsert_vector"} :
          CreateMemory(u, ForgotMedication, "health", {"medication"}, md, f)
    \/ \E u \in Users, fail \in BOOLEAN : CreateUser(u, "John Doe", 75, fail)
    \/ \E u \in Users, m \in Queries, failed \in SUBSET Reads :
          AssembleContext(u, m, failed)

Spec == Init /\ [][Next]_vars

(* The stores as time passes and the scheduler's jobs run *)
NextRetention ==
    \/ \E u \in Users, x \in Exchanges : StoreInteraction(u, x[1], x[2], "none")
    \/ \E u \in Users, md \in RequestMetadata :
          CreateMemory(u, ForgotMedication, "health", {"medication"}, md, "none")
    \/ \E u \in Users, m \in Queries : AssembleContext(u, m, {})
    \/ \E fail \in BOOLEAN : ArchiveMemories(fail)
    \/ \E fail \in BOOLEAN : CleanupExpiredMemories(fail)
    \/ \E u \in Users, k \in FragmentLimits : GetRecentMemories(u, k, FALSE)
    \/ \E d \in TimeSteps : Tick(d)

SpecRetention == Init /\ [][NextRetention]_vars

(* The scheduler's three jobs, each run on its own, as fragments are       *)
(* created and time passes                                                 *)
NextScheduler ==
    \/ \E u \in Users, x \in Exchanges : StoreInteraction(u, x[1], x[2], "none")
    \/ \E u \in Users, md \in RequestMetadata :
          CreateMemory(u, ForgotMedication, "health", {"medication"}, md, "none")
    \/ \E fail \in BOOLEAN : ArchiveMemories(fail)
    \/ \E fail \in BOOLEAN : CleanupExpiredMemories(fail)
    \/ \E fail \in BOOLEAN : LogMemoryStats(fail)
    \/ \E d \in TimeSteps : Tick(d)

SpecScheduler == Init /\ [][NextScheduler]_vars

(* The semantic index behind the search route *)
NextSearch ==
    \/ \E u \in Users, x \in Exchanges : StoreInteraction(u, x[1], x[2], "none")
    \/ \E u \in Users, md \in SearchMetadata :
          CreateMemory(u, ForgotMedication, "health", {"medication"}, md, "none")
    \/ \E u \in Users, q \in Queries, k \in TopKs, r \in Retentions, fail \in BOOLEAN :
          SearchMemories(u, q, k, r, fail)

SpecSearch == Init /\ [][NextSearch]_vars

(* The archival and cleanup jobs interleaved with the creation of fragments *)
NextConcurrent ==
    \/ \E u \in Users, x \in Exchanges : StoreInteraction(u, x[1], x[2], "none")
    \/ \E u \in Users, md \in RequestMetadata :
          CreateMemory(u, ForgotMedication, "health", {"medication"}, md, "none")
    \/ \E id \in JobIds : BeginJob(id)
    \/ ApplyArchive
    \/ ApplyCleanup
    \/ \E d \in TimeSteps : Tick(d)

SpecConcurrent == Init /\ [][NextConcurrent]_vars

(* The session cache when its Redis key is also written by another client *)
NextSessionShared ==
    \/ \E u \in Users, m \in SessionMessages, f \in AddFailPoints :
          writes < MaxShared /\ AddInteraction(u, m, Hello, f)
    \/ \E u \in Users : writes < MaxShared /\ ForeignPush(u)
    \/ \E u \in Users, k \in Limits, fail \in BOOLEAN : GetRecentInteractions(u, k, fail)

SpecSessionShared == Init /\ [][NextSessionShared]_vars

(* The chat endpoints, the AI client behind them and the background task  *)
(* that stores what was served                                             *)
ProviderNames == {"mistral", "cleoai", "mock"}
FallbackSettings == {<<>>, <<"mock">>, <<"cleoai", "mock">>}
BrokenProviders == {{}, {"mistral"}, {"cleoai"}}
Outcomes == [1..Cardinality(ProviderNames) -> ProviderOutcomes]
(* A stream asks the first provider alone *)
StreamOutcomes == {o \in Outcomes : \A i \in DOMAIN o : i > 1 => o[i] = "success"}
ChatUsers == {"u1"}

RunBackgroundTask ==
    \E task \in background_tasks, f \in StoreFailPoints, log_fails \in BOOLEAN :
        StoreInteractionBackground(task, f, log_fails)

(* The settings and the providers' own initialize are read by             *)
(* AIClient.initialize alone: an initialised client is given one of each   *)
Configured(fb, broken) == ai_client.initialized => (fb = <<>> /\ broken = {})

NextChat ==
    \/ \E u \in ChatUsers, x \in Exchanges, fb \in FallbackSettings,
          broken \in BrokenProviders, o \in Outcomes :
          Configured(fb, broken) /\ Respond(u, x[1], x[2], fb, broken, o)
    \/ \E u \in ChatUsers, x \in Exchanges, fb \in FallbackSettings,
          broken \in BrokenProviders, o \in StreamOutcomes :
          Configured(fb, broken) /\ RespondStream(u, x[1], x[2], fb, broken, o)
    \/ RunBackgroundTask

SpecChat == Init /\ [][NextChat]_vars

(* The server runs every background task it was given *)
SpecChatLive == SpecChat /\ WF_vars(RunBackgroundTask)

(* The classifier over short messages of a small vocabulary and over      *)
(* texts whose number of words is at, just below and just above the two    *)
(* length thresholds                                                       *)
Vocabulary ==
    {"Hi", "medication", "feel", "forgot", "like", "painting", "unhappy", "last", "week"}
Messages(n) == UNION {[1..k -> Vocabulary] : k \in 0..n}
Words(n) == [i \in 1..n |-> "word"]
Around(threshold) == {threshold - 1, threshold, threshold + 1}
ClassifierMessages ==
    Messages(MaxWords)
        \cup {Words(n) : n \in Around(10)}
        \cup {Words(n - 1) \o <<"family">> : n \in Around(10)}
ClassifierResponses ==
    {Hello, PleaseRemember} \cup {Words(n) : n \in Around(20)}

(* Each behaviour classifies one exchange *)
NextClassifier ==
    \E m \in ClassifierMessages, r \in ClassifierResponses :
        last = NoCall /\ Classify(m, r)

SpecClassifier == Init /\ [][NextClassifier]_vars

(* POST /memory/create with metadata of the caller's choosing and a       *)
(* content longer than the preview, and the search route                   *)
LongContent == [i \in 1..2000 |-> IF i <= 1000 THEN "x" ELSE "y"]
ScopeContents == {ForgotMedication, LongContent}
ScopeMetadata == {EmptyMetadata, [user_id |-> "u2"], [content |-> Hi]}

NextScope ==
    \/ \E u \in Users, c \in ScopeContents, md \in ScopeMetadata :
          CreateMemory(u, c, "health", {"medication"}, md, "none")
    \/ \E u \in Users, q \in Queries, k \in TopKs, r \in Retentions :
          SearchMemories(u, q, k, r, FALSE)

SpecScope == Init /\ [][NextScope]_vars

(* Create requests for the same and for different users, interleaved *)
Names == {"John Doe", "Jane Doe"}

NextUsers ==
    \/ \E u \in Users, name \in Names, fail \in BOOLEAN : CreateUserCheck(u, name, 75, fail)
    \/ \E req \in creating, fail \in BOOLEAN : CreateUserInsert(req, fail)

SpecUsers == Init /\ [][NextUsers]_vars

----------------------------------------------------------------------------
(* C1: after every add_interaction call that returns, the user's stored    *)
(* session list holds at most memory_context_limit records, however many   *)
(* appends came before and whatever earlier calls failed half-way.         *)
C1_TrimAfterEveryAppend ==
    (last.op = "add_interaction" /\ ~last.raised)
        => Len(session[last.user]) <= memory_context_limit

(* An append that returned after more than memory_context_limit appends:   *)
(* the trim has cut the list back to the limit.                            *)
C1_Witness ==
    /\ last.op = "add_interaction"
    /\ ~last.raised
    /\ Len(appended[last.user]) > memory_context_limit
    /\ Len(session[last.user]) = memory_context_limit

(* C2: get_recent_interactions(U, limit=K), K >= 1, returns at most K       *)
(* records, as many as K and the stored list allow, and they are the most  *)
(* recently appended records in append order; every stored list is a       *)
(* suffix of what was appended, so that trimming removes records only from *)
(* the head and never reorders the rest.                                   *)
C2_RecentIsNewestInOrder ==
    /\ \A u \in Users : IsSuffix(DecodeAll(session[u]), appended[u])
    /\ (last.op = "get_recent_interactions" /\ last.failed = {} /\ last.limit >= 1)
          => /\ Len(last.result) <= last.limit
             /\ Len(last.result) = Min(last.limit, Len(session[last.user]))
             /\ IsSuffix(last.result, appended[last.user])

(* A read of fewer records than are stored, from a list that has been      *)
(* trimmed: the result is a proper part of the stored list.                *)
C2_Witness ==
    /\ last.op = "get_recent_interactions"
    /\ last.failed = {}
    /\ last.limit >= 1
    /\ Len(last.result) = last.limit
    /\ last.limit < Len(session[last.user])
    /\ Len(appended[last.user]) > memory_context_limit

----------------------------------------------------------------------------
(* Vocabulary for the properties of store_interaction and assemble_context *)

IsPrefix(s, t) == Len(s) <= Len(t) /\ s = SubSeq(t, 1, Len(s))

HasLine(text, line) == \E i \in DOMAIN text : text[i] = line

SessionWrites == <<"rpush", "ltrim", "expire">>
AllWrites == <<"rpush", "ltrim", "expire", "insert_fragment", "upsert_vector">>

(* The step just taken is a store_interaction call *)
Stored == writes' = writes + 1 /\ last'.op = "store_interaction"

(* The session list of the caller's user holds the exchange of the call    *)
(* just made as its newest record, after the records it held before        *)
ExchangeAppended ==
    LET u == last'.user
        record == [timestamp |-> utcnow(u), user |-> last'.user_message,
                   ai |-> last'.ai_response]
    IN  DecodeAll(session'[u]) =
            LastN(Append(DecodeAll(session[u]), record), memory_context_limit)

(* C3: for an exchange the classifier judges not significant,              *)
(* store_interaction appends the exchange to the user's session list and   *)
(* writes nothing to the fragment collection and nothing to the index.     *)
C3_InsignificantSessionOnly ==
    [][(Stored /\ ~_is_significant_interaction(last'.user_message, last'.ai_response))
          => /\ memory_fragments' = memory_fragments
             /\ vectors' = vectors
             /\ IsPrefix(last'.trace, SessionWrites)
             /\ last'.failed = {} => (last'.trace = SessionWrites /\ ExchangeAppended)
      ]_vars

(* "Hi" / "Hello!" has been stored without a failure *)
C3_Witness ==
    /\ last.op = "store_interaction"
    /\ last.user_message = Hi /\ last.ai_response = Hello
    /\ ~_is_significant_interaction(last.user_message, last.ai_response)
    /\ last.failed = {}
    /\ last.trace = SessionWrites
    /\ session[last.user] # <<>>

(* C4: for a significant exchange store_interaction appends to the session *)
(* list, then inserts exactly one fragment, active and of the caller's     *)
(* user, then upserts exactly one index entry of that user whose metadata  *)
(* carries the fragment's id; whatever fails, the writes made are a prefix *)
(* of that order, so the fragment is written before the vector.            *)
C4_SessionThenFragmentThenVector ==
    [][Stored =>
          /\ IsPrefix(last'.trace, AllWrites)
          /\ (/\ _is_significant_interaction(last'.user_message, last'.ai_response)
              /\ last'.failed = {})
                => /\ last'.trace = AllWrites
                   /\ ExchangeAppended
                   /\ \E d \in memory_fragments' \ memory_fragments :
                      \E v \in vectors' \ vectors :
                         /\ memory_fragments' = memory_fragments \cup {d}
                         /\ vectors' = vectors \cup {v}
                         /\ d.fragment.user_id = last'.user
                         /\ d.fragment.retention = "active"
                         /\ v.metadata.user_id = last'.user
                         /\ v.metadata.fragment_id = Some(FragmentId(d.id))
      ]_vars

(* A significant exchange has been stored without a failure *)
C4_Witness ==
    /\ last.op = "store_interaction"
    /\ _is_significant_interaction(last.user_message, last.ai_response)
    /\ last.failed = {}
    /\ \E d \in memory_fragments : d.id = last.result.n
    /\ \E v \in vectors : v.id = VectorId(last.result.n)

(* C5: after store_interaction has completed for a significant exchange,   *)
(* the fragment held in the fragment collection has its embedding_id set   *)
(* to the id of the entry created for it, and that id names exactly one    *)
(* entry of the index, of the same user.                                   *)
C5_StoredFragmentLinksVector ==
    (/\ last.op = "store_interaction"
     /\ _is_significant_interaction(last.user_message, last.ai_response)
     /\ last.failed = {})
        => \A d \in memory_fragments :
              d.id = last.result.n
                 => /\ d.fragment.embedding_id = Some(VectorId(d.id))
                    /\ Cardinality({v \in vectors :
                           /\ Some(v.id) = d.fragment.embedding_id
                           /\ v.metadata.user_id = d.fragment.user_id}) = 1

(* C6: when the fragment insert or the vector upsert fails during          *)
(* store_interaction, the record appended to the session list for that     *)
(* exchange stays in place.                                                *)
C6_FailureKeepsSessionAppend ==
    [][(Stored /\ last'.failed \cap {"insert_fragment", "upsert_vector"} # {})
          => /\ ExchangeAppended
             /\ IsPrefix(SessionWrites, last'.trace)
             /\ ~last'.raised
      ]_vars

(* A long-term write has failed and the exchange is the newest record of   *)
(* the user's session list                                                 *)
C6_Witness ==
    /\ last.op = "store_interaction"
    /\ last.failed \cap {"insert_fragment", "upsert_vector"} # {}
    /\ session[last.user] # <<>>
    /\ json_loads(session[last.user][Len(session[last.user])]).user = last.user_message
    /\ \A v \in vectors : v.id # VectorId(last.result.n)

----------------------------------------------------------------------------
(* What the stores hold for a user *)

ProfilesOf(u) == {d \in user_profiles : d.profile.user_id = u}
FragmentsOf(u) == {d \in memory_fragments : d.fragment.user_id = u}
ActiveFragmentsOf(u) == {d \in FragmentsOf(u) : d.fragment.retention = "active"}
ActiveEntriesOf(u) ==
    {v \in vectors : v.metadata.user_id = u /\ v.metadata.retention = "active"}

Assembled == last.op = "assemble_context"

DegradedContext(m) == << <<"User", "says:">> \o m >>

C8_EmptyUserTemplate ==
    (/\ Assembled
     /\ last.failed = {}
     /\ ProfilesOf(last.user) = {}
     /\ session[last.user] = <<>>
     /\ FragmentsOf(last.user) = {}
     /\ ActiveEntriesOf(last.user) = {})
        => /\ HasLine(last.result.context_string, <<"Name:", "Friend">>)
           /\ HasLine(last.result.context_string, <<"Age:", "0">>)
           /\ HasLine(last.result.context_string, FirstConversation)
           /\ HasLine(last.result.context_string, NoRelevantMemories)
           /\ HasLine(last.result.context_string, NoRecentEvents)
           /\ last.result.context_string # DegradedContext(last.user_message)

(* C9: the four reads of one assemble_context call fail apart: a read that *)
(* fails gives its default, and what the other reads found is in the       *)
(* bundle and in the context string.                                       *)
C9_ReadsFailSeparately ==
    Assembled =>
        LET u == last.user
            b == last.result
            stored == DecodeAll(session[u])
        IN  /\ "profile" \in last.failed => b.user_profile = SyntheticProfile(u)
            /\ ("profile" \notin last.failed /\ ProfilesOf(u) # {})
                  => /\ \E d \in ProfilesOf(u) : b.user_profile = d.profile
                     /\ HasLine(b.context_string, <<"Name:", b.user_profile.name>>)
                     /\ b.user_profile.name # "Friend"
            /\ "session" \in last.failed
                  => b.recent_interactions = << <<"No recent interactions.">> >>
            /\ ("session" \notin last.failed /\ stored # <<>>)
                  => \A i \in DOMAIN stored :
                        /\ HasLine(b.recent_interactions, <<"User:">> \o stored[i].user)
                        /\ HasLine(b.context_string, <<"AI:">> \o stored[i].ai)
            /\ "search" \in last.failed => b.relevant_memories = <<>>
            /\ "search" \notin last.failed
                  => /\ Len(b.relevant_memories) = Min(5, Cardinality(ActiveEntriesOf(u)))
                     /\ \A i \in DOMAIN b.relevant_memories :
                           /\ \E v \in ActiveEntriesOf(u) : v.id = b.relevant_memories[i].id
                           /\ i <= 3 => HasLine(b.context_string,
                                            MemoryLines(b.relevant_memories)[i])
            /\ "fragments" \in last.failed => b.recent_fragments = <<>>
            /\ "fragments" \notin last.failed
                  => /\ Len(b.recent_fragments) = Min(10, Cardinality(ActiveFragmentsOf(u)))
                     /\ \A i \in DOMAIN b.recent_fragments :
                           /\ \E d \in ActiveFragmentsOf(u) : d.fragment = b.recent_fragments[i]
                           /\ i <= 5 => HasLine(b.context_string,
                                            EventLines(b.recent_fragments)[i])

(* The search fails and the other three reads succeed, for a user who has  *)
(* a profile, a session history, a fragment and an index entry             *)
C9_Witness ==
    /\ Assembled
    /\ last.failed = {"search"}
    /\ ProfilesOf(last.user) # {}
    /\ session[last.user] # <<>>
    /\ ActiveEntriesOf(last.user) # {}
    /\ last.result.relevant_memories = <<>>
    /\ last.result.recent_fragments # <<>>
    /\ last.result.user_profile.name = "John Doe"

(* C10: no memory whose fragment has retention archive is in the           *)
(* relevant_memories or the recent_fragments that assemble_context         *)
(* returns, nor in its context string.                                     *)
ArchivedFragmentIds ==
    {FragmentId(d.id) : d \in {e \in memory_fragments : e.fragment.retention = "archive"}}

C10_NoArchivedMemoryInContext ==
    Assembled
        => /\ \A i \in DOMAIN last.result.relevant_memories :
                 \A f \in ArchivedFragmentIds :
                    last.result.relevant_memories[i].metadata.fragment_id # Some(f)
           /\ \A i \in DOMAIN last.result.recent_fragments :
                 last.result.recent_fragments[i].retention = "active"

----------------------------------------------------------------------------
(* Retention in the index, and the search filter *)

(* The fragment an index entry was created for *)
FragmentOfEntry(v) ==
    {d \in memory_fragments : v.metadata.fragment_id = Some(FragmentId(d.id))}

(* C11: after the archival job has completed, the metadata retention of    *)
(* every index entry equals the retention of the fragment it was created   *)
(* for.                                                                    *)
C11_EntryRetentionFollowsFragment ==
    (last.op = "archive_memories" /\ last.failed = {})
        => \A v \in vectors : \A d \in FragmentOfEntry(v) :
              v.metadata.retention = d.fragment.retention

Searched == last.op = "search_memories" /\ last.failed = {}

EntriesPassing(u, retention) ==
    {v \in vectors : /\ v.metadata.user_id = u
                     /\ retention = Nothing \/ v.metadata.retention = retention[1]}

(* C12: search_memories(user_id=U, retention="active") returns only        *)
(* entries whose metadata user_id is U and whose metadata retention is     *)
(* active, never one whose retention is archive; without a retention       *)
(* argument it filters on the user only: it returns as many of U's entries *)
(* of any retention as top_k allows.                                       *)
C12_SearchFiltersUserAndRetention ==
    Searched =>
        LET given == last.result.retention
            results == last.result.results
        IN  /\ \A i \in DOMAIN results :
                  /\ results[i].metadata.user_id = last.user
                  /\ \E v \in vectors : v.id = results[i].id /\ v.metadata = results[i].metadata
                  /\ given = Some("active") => results[i].metadata.retention # "archive"
                  /\ given # Nothing => results[i].metadata.retention = given[1]
            /\ Len(results) = Min(last.limit, Cardinality(EntriesPassing(last.user, given)))
            /\ \A i, j \in DOMAIN results : i # j => results[i].id # results[j].id

(* A search for active memories by a user who has an archived entry and    *)
(* an active one: only the active one is returned                          *)
C12_Witness ==
    /\ Searched
    /\ last.result.retention = Some("active")
    /\ last.limit = 5
    /\ Len(last.result.results) = 1
    /\ \E v \in vectors : v.metadata.user_id = last.user /\ v.metadata.retention = "archive"

----------------------------------------------------------------------------
(* The retention jobs *)

Archived == last.op = "archive_memories" /\ last.failed = {}
CleanedUp == last.op = "cleanup_expired_memories" /\ last.failed = {}

OlderThan(d, days) == d.fragment.timestamp < clock - days

AsArchived(d) == [d EXCEPT !.fragment.retention = "archive"]

(* C13: archive_old_memories sets retention archive on exactly the active  *)
(* fragments older than the active horizon and returns their count; when   *)
(* no fragment is eligible it returns 0 and changes nothing, and a second  *)
(* call right after any call finds nothing eligible.                       *)
C13_ArchiveIdempotent ==
    [][Archived' =>
         LET eligible == {d \in memory_fragments :
                             d.fragment.retention = "active"
                             /\ OlderThan(d, memory_active_days)}
         IN  /\ memory_fragments' =
                   (memory_fragments \ eligible) \cup {AsArchived(d) : d \in eligible}
             /\ last'.result = Cardinality(eligible)
             /\ eligible = {} => last'.result = 0 /\ memory_fragments' = memory_fragments
             /\ archive_old_memories(memory_fragments', clock', FALSE)
                   = [fragments |-> memory_fragments', count |-> 0]]_vars

(* An archival that finds nothing eligible in a store that holds an        *)
(* archived fragment: it returns 0                                         *)
C13_Witness ==
    /\ Archived
    /\ last.result = 0
    /\ \E d \in memory_fragments :
          d.fragment.retention = "archive" /\ OlderThan(d, memory_active_days)

(* C15: the cleanup job deletes every fragment whose timestamp is older    *)
(* than the archive horizon, whether its retention is active or archive,   *)
(* and no fragment whose timestamp is within the horizon.                  *)
C15_CleanupDeletesByAgeAlone ==
    [][CleanedUp' =>
         LET old == {d \in memory_fragments : OlderThan(d, memory_archive_days)}
         IN  /\ memory_fragments' = memory_fragments \ old
             /\ last'.result.deleted = old
             /\ last'.result.deleted_count = Cardinality(old)]_vars

(* A cleanup that deleted an archived fragment and left a newer one *)
C15_Witness ==
    /\ CleanedUp
    /\ \E d \in last.result.deleted : d.fragment.retention = "archive"
    /\ \E d \in memory_fragments : ~OlderThan(d, memory_archive_days)

(* C16 as stated: a fragment's retention never goes from archive back to   *)
(* active, and a fragment is deleted only from the archive state, never    *)
(* directly from active.                                                   *)
C16_PurgedOnlyFromArchive ==
    [][\A d \in memory_fragments :
          /\ d.fragment.retention = "archive"
                => \A e \in memory_fragments' :
                      e.id = d.id => e.fragment.retention = "archive"
          /\ (\A e \in memory_fragments' : e.id # d.id)
                => d.fragment.retention = "archive"]_vars

(* C16 as amended: a fragment's retention never goes from archive back to  *)
(* active; it goes from active to archive only when the fragment is older  *)
(* than the active horizon; a fragment is deleted only when it is older    *)
(* than the archive horizon, from whichever retention it then has: the     *)
(* cleanup deletes a fragment that is still active directly.               *)
C16_RetentionOnlyForward ==
    [][\A d \in memory_fragments :
          /\ \A e \in memory_fragments' :
                e.id = d.id =>
                   \/ e = d
                   \/ /\ d.fragment.retention = "active"
                      /\ OlderThan(d, memory_active_days)
                      /\ e = AsArchived(d)
          /\ (\A e \in memory_fragments' : e.id # d.id)
                => OlderThan(d, memory_archive_days)]_vars

(* A cleanup that deleted a fragment whose retention was still active *)
C16_Witness ==
    /\ CleanedUp
    /\ \E d \in last.result.deleted : d.fragment.retention = "active"

----------------------------------------------------------------------------
(* Reading the active fragments *)

Listed == last.op = "get_active_memories" /\ last.failed = {}

(* C14 as stated: a stored fragment is in the result of                    *)
(* get_active_memories for its user as long as no archival has touched it, *)
(* and is no longer in it once archive_old_memories has archived it.       *)
C14_ActiveFragmentAlwaysListed ==
    Listed =>
        /\ \A d \in ActiveFragmentsOf(last.user) :
              \E i \in DOMAIN last.result : last.result[i] = d.fragment
        /\ \A i \in DOMAIN last.result : last.result[i].retention # "archive"

(* C14 as amended: get_active_memories(user, limit) returns the limit      *)
(* newest fragments of the user whose retention is active, newest first:   *)
(* a stored fragment is in the result while it is active and among the     *)
(* limit newest (always, when the user has at most limit active            *)
(* fragments), and never once it is archived.                              *)
C14_NewestActiveFragmentsListed ==
    Listed =>
        LET active == ActiveFragmentsOf(last.user)
            result == last.result
        IN  /\ Len(result) = Min(last.limit, Cardinality(active))
            /\ \A i \in DOMAIN result :
                  /\ result[i].retention = "active"
                  /\ \E d \in active : d.fragment = result[i]
            /\ \A i, j \in DOMAIN result :
                  i < j => result[i].timestamp >= result[j].timestamp
            /\ \A d \in active :
                  \/ \E i \in DOMAIN result : result[i] = d.fragment
                  \/ \A i \in DOMAIN result : result[i].timestamp >= d.fragment.timestamp
            /\ Cardinality(active) <= last.limit
                  => \A d \in active : \E i \in DOMAIN result : result[i] = d.fragment

(* A user with an archived fragment and a newer active one: the read       *)
(* returns the active one alone                                            *)
C14_Witness ==
    /\ Listed
    /\ last.limit = 10
    /\ Len(last.result) = 1
    /\ \E d \in FragmentsOf(last.user) :
          /\ d.fragment.retention = "archive"
          /\ d.fragment.timestamp < last.result[1].timestamp

----------------------------------------------------------------------------
(* Failures inside the scheduler's jobs *)

JobOps == {"archive_memories", "cleanup_expired_memories", "log_memory_stats"}

JobIdOf(op) ==
    CASE op = "archive_memories" -> "memory_archival"
      [] op = "cleanup_expired_memories" -> "memory_cleanup"
      [] OTHER -> "stats_logging"

(* C17: an exception inside one of the three jobs is caught and logged     *)
(* inside the job: it never reaches the scheduler, and after it each of    *)
(* the three jobs, the failing one included, can still run.                *)
C17_JobFailuresIsolated ==
    /\ scheduler.errors = {}
    /\ last.op \in JobOps =>
          /\ ~last.raised
          /\ last.failed # {} => JobIdOf(last.op) \in scheduler.logged
    /\ ENABLED ArchiveMemories(FALSE)
    /\ ENABLED CleanupExpiredMemories(FALSE)
    /\ ENABLED LogMemoryStats(FALSE)

(* The cleanup job has failed in an earlier run, and its next run has      *)
(* deleted an expired fragment                                             *)
C17_Witness ==
    /\ "memory_cleanup" \in scheduler.logged
    /\ CleanedUp
    /\ last.result.deleted_count >= 1

----------------------------------------------------------------------------
(* The jobs and concurrent fragment creation *)

(* The step in which the job under way applies its update_many or          *)
(* delete_many                                                             *)
Applies == Running /\ scheduler'.run # Nothing /\ scheduler'.run[1].done

PassesJobFilter(d, run) ==
    IF run.job = "memory_archival"
    THEN d.fragment.retention = "active" /\ d.fragment.timestamp < run.now - memory_active_days
    ELSE d.fragment.timestamp < run.now - memory_archive_days

(* C18: when the archival or the cleanup job is interleaved with the       *)
(* creation of fragments, a fragment created while the job is under way    *)
(* is neither archived nor deleted nor lost, and the job changes exactly   *)
(* the fragments that pass its age filter when its one update_many or      *)
(* delete_many is applied.                                                 *)
C18_JobsSpareConcurrentFragments ==
    [][Applies =>
         LET run == scheduler.run[1]
         IN  /\ \A d \in memory_fragments \ run.seen :
                   /\ d.fragment.timestamp >= run.now
                   /\ d \in memory_fragments'
             /\ \A d \in memory_fragments :
                   IF PassesJobFilter(d, run)
                   THEN /\ d \notin memory_fragments'
                        /\ run.job = "memory_archival" => AsArchived(d) \in memory_fragments'
                        /\ run.job = "memory_cleanup"
                              => \A e \in memory_fragments' : e.id # d.id
                   ELSE d \in memory_fragments'
             /\ Cardinality(memory_fragments') <= Cardinality(memory_fragments)
             /\ \A e \in memory_fragments' : \E d \in memory_fragments : d.id = e.id]_vars

(* An archival that archived an old fragment while a fragment created      *)
(* after the job began is still stored and active                          *)
C18_Witness ==
    /\ scheduler.run # Nothing
    /\ scheduler.run[1].done
    /\ Archived
    /\ last.result >= 1
    /\ \E d \in memory_fragments :
          /\ d \notin scheduler.run[1].seen
          /\ \A e \in scheduler.run[1].seen : e.id # d.id
          /\ d.fragment.retention = "active"

----------------------------------------------------------------------------
(* Failures of the session backend *)

IsJson(raw) == raw # NotJson

(* C19: when the session backend is unavailable get_recent_interactions    *)
(* returns an empty list and does not raise, and add_interaction raises    *)
(* to its caller; a read that succeeds skips the stored items that are not *)
(* JSON and returns the others.                                            *)
C19_ReadDegradesWriteRaises ==
    /\ last.op = "get_recent_interactions" =>
          /\ ~last.raised
          /\ last.failed # {} => last.result = <<>>
          /\ last.failed = {} =>
                LET window == LastN(session[last.user], EffectiveLimit(last.limit))
                    good == SelectSeq(window, IsJson)
                IN  last.result = [i \in DOMAIN good |-> good[i][2]]
    /\ last.op = "add_interaction" => (last.raised <=> last.failed # {})

(* The backend fails on a read of a session that holds an interaction and  *)
(* an item that is not JSON: the result is empty                           *)
C19_Witness ==
    /\ last.op = "get_recent_interactions"
    /\ last.failed # {}
    /\ last.result = <<>>
    /\ \E i \in DOMAIN session[last.user] : IsJson(session[last.user][i])
    /\ \E i \in DOMAIN session[last.user] : ~IsJson(session[last.user][i])

(* C20: a failure of the session append or of the fragment insert during   *)
(* store_interaction reaches the caller of store_interaction as an         *)
(* exception.                                                              *)
C20_StoreFailurePropagates ==
    (/\ last.op = "store_interaction"
     /\ last.failed \cap {"rpush", "ltrim", "expire", "insert_fragment"} # {})
        => last.raised

----------------------------------------------------------------------------
(* The audit log of the chat endpoints *)

(* The InteractionLog documents written for a served pair *)
LogsOf(p) ==
    {d \in interaction_logs :
        /\ d.log.session_id = p.session_id
        /\ d.log.user_id = p.user_id
        /\ d.log.user_message = p.user_message
        /\ d.log.ai_response = p.ai_response}

(* C21: every request/response pair served by /respond or /respond/stream  *)
(* eventually has exactly one InteractionLog document, whether or not the  *)
(* exchange is significant.                                                *)
C21_EveryServedPairLogged ==
    <>[](\A p \in served : Cardinality(LogsOf(p)) = 1)

----------------------------------------------------------------------------
(* The fallback chain of the AI client *)

----------------------------------------------------------------------------
(* The classifier *)

Classified == last.op = "classify"

(* The buckets one of whose keywords the text contains *)
MatchingBuckets(text) ==
    {i \in DOMAIN TypeBuckets : ContainsAny(text, TypeBuckets[i].words)}

(* C23: the type of an interaction is that of the first bucket, in the     *)
(* order health, emotion, event, preference, one of whose keywords the     *)
(* user message contains, and interaction when it contains none; a message *)
(* with "forgot" and "medication" is health.                               *)
C23_FirstMatchingBucketWins ==
    Classified
        => LET matching == MatchingBuckets(last.user_message)
               first == CHOOSE i \in matching : \A j \in matching : i <= j
           IN  /\ <<TypeBuckets[1].type, TypeBuckets[2].type,
                    TypeBuckets[3].type, TypeBuckets[4].type>>
                     = <<"health", "emotion", "event", "preference">>
               /\ last.result.type =
                     IF matching = {} THEN "interaction" ELSE TypeBuckets[first].type

(* A message with "forgot" before "medication", classified health *)
C23_Witness ==
    /\ Classified
    /\ last.user_message = <<"forgot", "medication">>
    /\ MatchingBuckets(last.user_message) = {1, 3}
    /\ last.result.type = "health"

HasKeyword(text) == ContainsAny(text, SignificantKeywords)

(* C24: an exchange is significant exactly when the user message or the    *)
(* AI response contains one of the keywords, or the user message has more  *)
(* than 10 words, or the AI response has more than 20 words.               *)
C24_SignificantIffKeywordOrLong ==
    Classified
        => last.result.significant
              = (\/ HasKeyword(last.user_message)
                 \/ HasKeyword(last.ai_response)
                 \/ Len(last.user_message) > 10
                 \/ Len(last.ai_response) > 20)

(* No keyword, a user message of exactly 10 words and a response of        *)
(* exactly 20 words: not significant                                       *)
C24_Witness ==
    /\ Classified
    /\ Len(last.user_message) = 10
    /\ Len(last.ai_response) = 20
    /\ ~HasKeyword(last.user_message)
    /\ ~HasKeyword(last.ai_response)
    /\ ~last.result.significant

----------------------------------------------------------------------------
(* What store_memory_vector writes for a call *)

Created == last.op = "create_memory" /\ ~last.raised

(* The entry the last create_memory call has upserted *)
EntryCreated == {v \in vectors : v.id = VectorId(last.result.n)}

(* C22: the content preview in the metadata of the entry                   *)
(* store_memory_vector stores is exactly the first 1000 characters of the  *)
(* content, the whole content when it is shorter, and the entry's          *)
(* embedding is that of the whole content.                                 *)
C22_PreviewIsFirstThousandCharacters ==
    Created
        => \A v \in EntryCreated :
              /\ v.metadata.content =
                    SubSeq(last.user_message, 1, Min(1000, Len(last.user_message)))
              /\ v.values = embed(last.user_message)

(* The user whose call created the entry with this id: the fragment        *)
(* inserted by the same call carries the caller's user_id                  *)
CreatorOf(vector_id) ==
    {d.fragment.user_id : d \in {e \in memory_fragments : VectorId(e.id) = vector_id}}

(* C30: an entry written through store_memory_vector for user U carries    *)
(* metadata user_id U whatever the metadata passed in holds, and a search  *)
(* for a user returns no entry created in a call for another user.         *)
C30_EntryStaysInCallersScope ==
    /\ Created => \A v \in EntryCreated : v.metadata.user_id = last.user
    /\ (last.op = "search_memories" /\ last.failed = {})
          => \A i \in DOMAIN last.result.results :
                CreatorOf(last.result.results[i].id) = {last.user}

----------------------------------------------------------------------------
(* C26: at most one profile exists per user_id: a create request for a     *)
(* user_id that has a profile inserts nothing, also when two create        *)
(* requests for the same user_id are handled concurrently.                 *)
C26_OneProfilePerUser ==
    \A u \in Users : Cardinality(ProfilesOf(u)) <= 1

----------------------------------------------------------------------------
(* C27: when add_interaction raises, the user's session list is what it    *)
(* was before the call: nothing was appended, the list is still within the *)
(* limit, and the key's TTL is unchanged.                                  *)
C27_FailedAddLeavesSessionUntouched ==
    [][(/\ writes' = writes + 1
        /\ last'.op = "add_interaction"
        /\ last'.raised)
          => /\ session' = session
             /\ sessionExpiry' = sessionExpiry
             /\ Len(session'[last'.user]) <= memory_context_limit
      ]_vars

(* C28: when store_interaction has returned for a significant exchange,    *)
(* either the fragment and its index entry both exist or neither does.     *)
C28_LongTermWriteAllOrNothing ==
    (/\ last.op = "store_interaction"
     /\ _is_significant_interaction(last.user_message, last.ai_response))
        => ((\E d \in memory_fragments : d.id = last.result.n)
               <=> (\E v \in vectors :
                       v.metadata.fragment_id = Some(FragmentId(last.result.n))))

(* C29: once the cleanup job has deleted a fragment, the index holds no    *)
(* entry that carries the fragment's id, and no memory assemble_context    *)
(* returns as relevant belongs to a fragment that is gone.                 *)
C29_NoEntryOfPurgedFragment ==
    /\ CleanedUp
          => \A d \in last.result.deleted : \A v \in vectors :
                v.metadata.fragment_id # Some(FragmentId(d.id))
    /\ last.op = "assemble_context"
          => \A i \in DOMAIN last.result.relevant_memories :
                \E d \in memory_fragments :
                   last.result.relevant_memories[i].metadata.fragment_id
                      = Some(FragmentId(d.id))

====
